---- MODULE Spec2Model ----
(***************************************************************************)
(* Model of probe_design/readout_sequences.py: the bit/barcode codec, the  *)
(* per-transcript readout assigner and the parallel batch dispatcher.      *)
(*                                                                         *)
(* Strings are sequences of one-character strings, so concatenation is \o  *)
(* and len() is Len.  Python indices are 0-based: on-bits are the Python   *)
(* values (0 .. len-1); TLA+ sequence positions are 1-based.               *)
(***************************************************************************)
EXTENDS Integers, Sequences, FiniteSets, TLC

VARIABLES
    probe_dict,            \* gene key -> transcript key -> probe table
    orig_dict,             \* probe_dict as it was when the dispatcher was called
    barcode_table,         \* rows [name, id, barcode_str]
    readout_seqs,          \* rows [id, sequence, on_bit]
    N_readout_per_probe,
    spacer,
    gene_id_key,
    n_threads,
    each_probe_1_on_bit,
    ks,                    \* list of (gk, tk)
    args,                  \* list of task argument lists
    results,               \* the list starmap fills, one slot per task
    pc,                    \* position of the dispatcher
    gi,                    \* position of the loop over probe_dict.keys()
    wi,                    \* position of the write-back loop
    frames,                \* one call frame of the assigner per task
    finished,              \* task indices in the order the workers finished them
    codec                  \* inputs and outputs of the codec functions

vars == <<probe_dict, orig_dict, barcode_table, readout_seqs, N_readout_per_probe,
          spacer, gene_id_key, n_threads, each_probe_1_on_bit, ks, args, results,
          pc, gi, wi, frames, finished, codec>>

(***************************************************************************)
(* Bounds of the model.                                                    *)
(***************************************************************************)
MaxBits == 3      \* longest barcode
MaxRows == 2      \* most probes in one probe table
MaxShift == 1     \* shifts are 0 .. MaxShift
MaxN == 4         \* largest N_readout_per_probe
MaxDraws == 4     \* most readouts drawn in one call: rows * N_readout_per_probe
MaxThreads == 2   \* largest n_threads

(***************************************************************************)
(* Helpers for sequences used as Python lists and strings.                 *)
(***************************************************************************)
\* range(n) as a list
Indices(n) == [k \in 1..n |-> k - 1]

\* the elements of a list
Elems(s) == {s[k] : k \in 1..Len(s)}

\* x in list
InList(x, s) == \E k \in 1..Len(s) : s[k] = x

\* str.split(sep) for a one-character separator
RECURSIVE SplitFrom(_, _, _, _)
SplitFrom(s, sep, k, cur) ==
    IF k > Len(s) THEN <<cur>>
    ELSE IF s[k] = sep THEN <<cur>> \o SplitFrom(s, sep, k + 1, <<>>)
    ELSE SplitFrom(s, sep, k + 1, Append(cur, s[k]))

Split(s, sep) == SplitFrom(s, sep, 1, <<>>)

\* ''.join(list of strings)
RECURSIVE Concat(_)
Concat(ss) == IF Len(ss) = 0 THEN <<>> ELSE Head(ss) \o Concat(Tail(ss))

(***************************************************************************)
(* Bit/barcode codec.                                                      *)
(***************************************************************************)
\* lists every position, dropping the == '1' test
barcode_to_on_bits_all(barcode) == Indices(Len(barcode))

barcode_to_on_bits(barcode) ==
    LET IsOn(i) == barcode[i + 1] = "1"
    IN  SelectSeq(Indices(Len(barcode)), IsOn)

\* tests i+1 instead of i
on_bits_to_barcodes_shifted(on_bits, barcode_length) ==
    [k \in 1..barcode_length |-> IF InList(k, on_bits) THEN "1" ELSE "0"]

\* uses the number of sampled on-bits as the length
on_bits_to_barcodes_short(on_bits, barcode_length) ==
    [k \in 1..Len(on_bits) |-> IF InList(k - 1, on_bits) THEN "1" ELSE "0"]

on_bits_to_barcodes(on_bits, barcode_length) ==
    [k \in 1..barcode_length |-> IF InList(k - 1, on_bits) THEN "1" ELSE "0"]

\* the set of (0-based) positions of the '1' characters of a barcode
OnePositions(barcode) == {k - 1 : k \in {p \in 1..Len(barcode) : barcode[p] = "1"}}

(***************************************************************************)
(* numpy.random.choice and DataFrame.sort_values, by their contracts.      *)
(***************************************************************************)
\* ignores replace: always samples with replacement
choice_with_replacement(a, size, replace) ==
    IF Len(a) = 0 /\ size > 0
    THEN {[ok |-> FALSE, value |-> <<>>]}
    ELSE {[ok |-> TRUE, value |-> s] : s \in [1..size -> Elems(a)]}

\* np.random.choice(a, size, replace): every sample the generator can return,
\* or the ValueError it raises (ok = FALSE)
choice(a, size, replace) ==
    IF (Len(a) = 0 /\ size > 0) \/ (~replace /\ size > Len(a))
    THEN {[ok |-> FALSE, value |-> <<>>]}
    ELSE IF replace
    THEN {[ok |-> TRUE, value |-> s] : s \in [1..size -> Elems(a)]}
    ELSE {[ok |-> TRUE, value |-> s] :
             s \in {t \in [1..size -> Elems(a)] :
                       \A x, y \in 1..size : t[x] = t[y] => x = y}}

\* leaves the table in its input order
sort_values_none(table) == {table}

\* probe_table.sort_values(by='shift'): the default kind is quicksort, which
\* is not stable, so rows of equal shift may come out in any order
sort_values(table) ==
    LET n == Len(table)
    IN  {[k \in 1..n |-> table[p[k]]] :
            p \in {q \in [1..n -> 1..n] :
                      /\ \A x, y \in 1..n : q[x] = q[y] => x = y
                      /\ \A x, y \in 1..n :
                            x < y => table[q[x]].shift <= table[q[y]].shift}}

(***************************************************************************)
(* add_readout_seqs_to_probes_of_transcript_random.                        *)
(***************************************************************************)
\* rows of readout_seqs whose on-bit is ob, in table order
MatchingReadouts(readouts, ob) ==
    LET Hit(r) == r.on_bit = ob IN SelectSeq(readouts, Hit)

\* the lookup of line 51 raises IndexError when no row matches
OnBitDictRaises(readouts, on_bits) ==
    \E ob \in Elems(on_bits) : Len(MatchingReadouts(readouts, ob)) = 0

on_bit_dict_of(readouts, on_bits) ==
    [ob \in Elems(on_bits) |->
        LET entry == MatchingReadouts(readouts, ob)[1]
        IN  <<entry.id, entry.sequence>>]

\* ignores each_probe_1_on_bit
ChooseProbeOnBitsNoFlag(on_bits, N, flag) ==
    IF Len(on_bits) >= N THEN choice(on_bits, N, FALSE) ELSE choice(on_bits, N, TRUE)

\* the three branches that pick probe_on_bits
ChooseProbeOnBits(on_bits, N, flag) ==
    IF flag
    THEN {[ok |-> c.ok,
           value |-> IF c.ok THEN [j \in 1..N |-> c.value[1]] ELSE <<>>] :
             c \in choice(on_bits, 1, TRUE)}
    ELSE IF Len(on_bits) >= N
    THEN choice(on_bits, N, FALSE)
    ELSE choice(on_bits, N, TRUE)

\* rounds up instead of down
n_left_ceil(N) == (N + 1) \div 2

n_left_of(N) == N \div 2

\* the loop over enumerate(probe_on_bits); j is the 0-based position
RECURSIVE AddReadouts(_, _, _, _, _, _, _)
AddReadouts(seq, ro_names, probe_on_bits, j, on_bit_dict, sp, n_left) ==
    IF j >= Len(probe_on_bits) THEN [seq |-> seq, ro_names |-> ro_names]
    ELSE LET ob == probe_on_bits[j + 1]
             ro_name == on_bit_dict[ob][1]
             ro_seq == on_bit_dict[ob][2]
         IN  IF j < n_left
             THEN AddReadouts(ro_seq \o sp \o seq, ro_name \o <<":">> \o ro_names,
                              probe_on_bits, j + 1, on_bit_dict, sp, n_left)
             ELSE AddReadouts(seq \o sp \o ro_seq, ro_names \o <<":">> \o ro_name,
                              probe_on_bits, j + 1, on_bit_dict, sp, n_left)

\* a row of the returned table: the input row with the three new columns
WithColumns(row, names, pbarcode, sequence) ==
    [index |-> row.index, target_sequence |-> row.target_sequence, shift |-> row.shift,
     readout_names |-> names, probe_barcode |-> pbarcode,
     target_readout_sequence |-> sequence]

\* the table a frame returns: its sorted rows with the three column lists
ReturnedTable(fr) ==
    [k \in 1..Len(fr.probe_table) |->
        WithColumns(fr.probe_table[k], fr.readout_probe_names[k],
                    fr.probe_barcodes[k], fr.sequences[k])]

\* a call frame before its first statement
NewFrame(state, table) ==
    [pc |-> state, probe_table |-> table, on_bits |-> <<>>, on_bit_dict |-> <<>>,
     probe_barcodes |-> <<>>, readout_probe_names |-> <<>>, sequences |-> <<>>,
     sampled |-> <<>>, err |-> ""]

\* a slot of the result list: empty, or holding a returned table
NoResult == [set |-> FALSE, value |-> <<>>]

\* stores a result in the first empty slot, i.e. in completion order
StoreResultInArrivalOrder(res, i, value) ==
    LET slot == CHOOSE k \in 1..Len(res) :
                    ~res[k].set /\ \A m \in 1..(k - 1) : res[m].set
    IN  [res EXCEPT ![slot] = [set |-> TRUE, value |-> value]]

\* starmap returns the results in the order of the argument list
StoreResult(res, i, value) == [res EXCEPT ![i] = [set |-> TRUE, value |-> value]]

DispatcherVars == <<probe_dict, orig_dict, barcode_table, readout_seqs,
                    N_readout_per_probe, spacer, gene_id_key, n_threads,
                    each_probe_1_on_bit, ks, args, pc, gi, wi>>

\* lines 45-52: reseed, compute on_bits, build on_bit_dict
BuildOnBitDict(f) ==
    /\ frames[f].pc = "start"
    /\ LET on_bits == barcode_to_on_bits(args[f].barcode)
       IN  IF OnBitDictRaises(args[f].readout_seqs, on_bits)
           THEN frames' = [frames EXCEPT ![f].pc = "raised", ![f].err = "IndexError",
                                         ![f].on_bits = on_bits]
           ELSE frames' = [frames EXCEPT
                              ![f].pc = "sort",
                              ![f].on_bits = on_bits,
                              ![f].on_bit_dict =
                                  on_bit_dict_of(args[f].readout_seqs, on_bits)]
    /\ UNCHANGED <<DispatcherVars, results, finished, codec>>

\* line 59
SortValues(f) ==
    /\ frames[f].pc = "sort"
    /\ \E sorted \in sort_values(frames[f].probe_table) :
          frames' = [frames EXCEPT ![f].pc = "loop", ![f].probe_table = sorted]
    /\ UNCHANGED <<DispatcherVars, results, finished, codec>>

\* lines 60-93: one iteration of the loop over the rows
LoopIter(f) ==
    /\ frames[f].pc = "loop"
    /\ Len(frames[f].sequences) < Len(frames[f].probe_table)
    /\ LET fr == frames[f]
           a == args[f]
           row == fr.probe_table[Len(fr.sequences) + 1]
       IN  \E c \in ChooseProbeOnBits(fr.on_bits, a.N_readout_per_probe,
                                      a.each_probe_1_on_bit) :
              IF ~c.ok
              THEN frames' = [frames EXCEPT ![f].pc = "raised", ![f].err = "ValueError"]
              ELSE LET probe_on_bits == c.value
                       built == AddReadouts(row.target_sequence, <<>>, probe_on_bits, 0,
                                            fr.on_bit_dict, a.spacer,
                                            n_left_of(a.N_readout_per_probe))
                   IN  frames' = [frames EXCEPT
                          ![f].probe_barcodes =
                              Append(@, on_bits_to_barcodes(probe_on_bits,
                                                            Len(a.barcode))),
                          ![f].readout_probe_names = Append(@, built.ro_names),
                          ![f].sequences = Append(@, built.seq),
                          ![f].sampled = Append(@, probe_on_bits)]
    /\ UNCHANGED <<DispatcherVars, results, finished, codec>>

\* lines 95-100: attach the three columns and return the table
Finish(f) ==
    /\ frames[f].pc = "loop"
    /\ Len(frames[f].sequences) = Len(frames[f].probe_table)
    /\ LET fr == frames[f]
       IN  /\ frames' = [frames EXCEPT ![f].pc = "returned"]
           /\ results' = StoreResult(results, f, ReturnedTable(fr))
           /\ finished' = Append(finished, f)
    /\ UNCHANGED <<DispatcherVars, codec>>

(***************************************************************************)
(* add_readout_seqs_to_probes_random.                                      *)
(***************************************************************************)
GeneOrder == <<"g1", "g2">>
TranscriptOrder == <<"t1", "t2">>

\* dict.keys(): the keys in insertion order
KeysOf(d, order) == LET Has(k) == k \in DOMAIN d IN SelectSeq(order, Has)

\* barcode_table[barcode_table[gene_id_key] == gk]
BarcodeRows(table, key, gk) == LET Hit(r) == r[key] = gk IN SelectSeq(table, Hit)

\* counts a raised task as complete
AllFinished(fs) == \A i \in 1..Len(fs) : fs[i].pc \in {"returned", "raised"}

\* starmap returns only when every task has returned a value
AllReturned(fs) == \A i \in 1..Len(fs) : fs[i].pc = "returned"

Running(fs) == {i \in 1..Len(fs) : fs[i].pc \in {"start", "sort", "loop"}}

\* lines 121-128: one iteration of the loop over the genes
BuildGene ==
    /\ pc = "build"
    /\ gi <= Len(KeysOf(probe_dict, GeneOrder))
    /\ LET gk == KeysOf(probe_dict, GeneOrder)[gi]
           rows == BarcodeRows(barcode_table, gene_id_key, gk)
           tks == KeysOf(probe_dict[gk], TranscriptOrder)
       IN  IF Len(rows) = 0
           THEN /\ pc' = "failed"
                /\ UNCHANGED <<ks, args, gi>>
           ELSE /\ ks' = ks \o [k \in 1..Len(tks) |-> <<gk, tks[k]>>]
                /\ args' = args \o
                      [k \in 1..Len(tks) |->
                          [probe_table |-> probe_dict[gk][tks[k]],
                           readout_seqs |-> readout_seqs,
                           barcode |-> rows[1].barcode_str,
                           N_readout_per_probe |-> N_readout_per_probe,
                           spacer |-> spacer,
                           each_probe_1_on_bit |-> each_probe_1_on_bit]]
                /\ gi' = gi + 1
                /\ pc' = pc
    /\ UNCHANGED <<probe_dict, orig_dict, barcode_table, readout_seqs,
                   N_readout_per_probe, spacer, gene_id_key, n_threads,
                   each_probe_1_on_bit, results, wi, frames, finished, codec>>

\* lines 131-132: the pool is created and the tasks are queued
StartPool ==
    /\ pc = "build"
    /\ gi > Len(KeysOf(probe_dict, GeneOrder))
    /\ pc' = "pool"
    /\ frames' = [i \in 1..Len(args) |-> NewFrame("pending", args[i].probe_table)]
    /\ results' = [i \in 1..Len(args) |-> NoResult]
    /\ UNCHANGED <<probe_dict, orig_dict, barcode_table, readout_seqs,
                   N_readout_per_probe, spacer, gene_id_key, n_threads,
                   each_probe_1_on_bit, ks, args, gi, wi, finished, codec>>

\* a free worker takes the next queued task
TaskStart(i) ==
    /\ pc = "pool"
    /\ frames[i].pc = "pending"
    /\ \A m \in 1..(i - 1) : frames[m].pc # "pending"
    /\ Cardinality(Running(frames)) < n_threads
    /\ frames' = [frames EXCEPT ![i].pc = "start"]
    /\ UNCHANGED <<DispatcherVars, results, finished, codec>>

\* line 132: starmap returns the result list
PoolReturn ==
    /\ pc = "pool"
    /\ AllReturned(frames)
    /\ pc' = "write"
    /\ wi' = 1
    /\ UNCHANGED <<probe_dict, orig_dict, barcode_table, readout_seqs,
                   N_readout_per_probe, spacer, gene_id_key, n_threads,
                   each_probe_1_on_bit, ks, args, results, gi, frames, finished, codec>>

\* line 132: starmap re-raises a task's exception once no task is running;
\* tasks still queued are dropped when the pool is torn down
PoolRaise ==
    /\ pc = "pool"
    /\ \E i \in 1..Len(frames) : frames[i].pc = "raised"
    /\ Running(frames) = {}
    /\ pc' = "failed"
    /\ UNCHANGED <<probe_dict, orig_dict, barcode_table, readout_seqs,
                   N_readout_per_probe, spacer, gene_id_key, n_threads,
                   each_probe_1_on_bit, ks, args, results, gi, wi, frames, finished,
                   codec>>

\* lines 135-137: one iteration of the write-back loop
WriteBack ==
    /\ pc = "write"
    /\ wi <= Len(ks)
    /\ LET gk == ks[wi][1]
           tk == ks[wi][2]
       IN  probe_dict' = [probe_dict EXCEPT ![gk][tk] = results[wi].value]
    /\ wi' = wi + 1
    /\ UNCHANGED <<orig_dict, barcode_table, readout_seqs, N_readout_per_probe,
                   spacer, gene_id_key, n_threads, each_probe_1_on_bit, ks, args,
                   results, pc, gi, frames, finished, codec>>

\* the function returns after the last write
Return ==
    /\ pc = "write"
    /\ wi > Len(ks)
    /\ pc' = "done"
    /\ UNCHANGED <<probe_dict, orig_dict, barcode_table, readout_seqs,
                   N_readout_per_probe, spacer, gene_id_key, n_threads,
                   each_probe_1_on_bit, ks, args, results, gi, wi, frames, finished,
                   codec>>

(***************************************************************************)
(* The codec applied to its inputs.                                        *)
(***************************************************************************)
\* round trip of a barcode: barcode_to_on_bits, then on_bits_to_barcodes
EncodeThenDecode ==
    /\ codec.kind = "barcode"
    /\ ~codec.done
    /\ LET on == barcode_to_on_bits(codec.barcode)
       IN  codec' = [codec EXCEPT !.done = TRUE,
                                  !.r_on_bits = on,
                                  !.r_barcode = on_bits_to_barcodes(on, Len(codec.barcode))]
    /\ UNCHANGED <<DispatcherVars, results, frames, finished>>

\* round trip of a list of on-bits: on_bits_to_barcodes, then barcode_to_on_bits
DecodeThenEncode ==
    /\ codec.kind = "on_bits"
    /\ ~codec.done
    /\ LET bc == on_bits_to_barcodes(codec.on_bits, codec.barcode_length)
       IN  codec' = [codec EXCEPT !.done = TRUE,
                                  !.r_barcode = bc,
                                  !.r_on_bits = barcode_to_on_bits(bc)]
    /\ UNCHANGED <<DispatcherVars, results, frames, finished>>

(***************************************************************************)
(* Inputs.                                                                 *)
(***************************************************************************)
Digits == <<"0", "1", "2", "3", "4", "5", "6", "7", "8", "9">>
Bases == <<"A", "C", "G", "T">>

\* every barcode over {'0','1'} of length 0 .. MaxBits
Barcodes == UNION {[1..n -> {"0", "1"}] : n \in 0..MaxBits}

\* every list of at most MaxBits indices within [0, L)
OnBitLists(L) == UNION {[1..n -> {k - 1 : k \in 1..L}] : n \in 0..MaxBits}

\* the readout of bit i: id "R<i>", sequence of one or two bases
ReadoutRow(i) ==
    [id |-> <<"R", Digits[(i % 10) + 1]>>,
     sequence |-> [k \in 1..((i % 2) + 1) |-> Bases[(i % 4) + 1]],
     on_bit |-> i]

FullReadouts == [k \in 1..MaxBits |-> ReadoutRow(k - 1)]

\* a complete table, one with a second row for bit 0, one without the last bit
ReadoutTables ==
    {FullReadouts,
     Append(FullReadouts, [id |-> <<"X">>, sequence |-> <<"T">>, on_bit |-> 0]),
     SubSeq(FullReadouts, 1, MaxBits - 1)}

TargetOf(label) == IF label % 2 = 0 THEN <<"A", "C", "G", "T">> ELSE <<"G", "G", "A">>

ProbeRow(label, shift) ==
    [index |-> label, target_sequence |-> TargetOf(label), shift |-> shift]

\* every probe table of 0 .. MaxRows rows with shifts in 0 .. MaxShift
ProbeTables ==
    UNION {{[k \in 1..n |-> ProbeRow(k - 1, sh[k])] : sh \in [1..n -> 0..MaxShift]} :
              n \in 0..MaxRows}

Spacers == {<<>>, <<"T", "T">>}

NoCodec == [kind |-> "none", barcode |-> <<>>, on_bits |-> <<>>, barcode_length |-> 0,
            done |-> FALSE, r_on_bits |-> <<>>, r_barcode |-> <<>>]

NoDict == [g \in {} |-> <<>>]

(***************************************************************************)
(* SpecCodec: the codec on every bounded input.                            *)
(***************************************************************************)
InitCodec ==
    /\ codec \in
          {[NoCodec EXCEPT !.kind = "barcode", !.barcode = b, !.barcode_length = Len(b)] :
              b \in Barcodes}
          \cup
          UNION {{[NoCodec EXCEPT !.kind = "on_bits", !.on_bits = S,
                                  !.barcode_length = L] : S \in OnBitLists(L)} :
                    L \in 0..MaxBits}
    /\ probe_dict = NoDict
    /\ orig_dict = NoDict
    /\ barcode_table = <<>>
    /\ readout_seqs = <<>>
    /\ N_readout_per_probe = 1
    /\ spacer = <<>>
    /\ gene_id_key = "name"
    /\ n_threads = 1
    /\ each_probe_1_on_bit = FALSE
    /\ ks = <<>>
    /\ args = <<>>
    /\ results = <<>>
    /\ pc = "codec"
    /\ gi = 1
    /\ wi = 1
    /\ frames = <<>>
    /\ finished = <<>>

NextCodec == EncodeThenDecode \/ DecodeThenEncode

SpecCodec == InitCodec /\ [][NextCodec]_vars

(***************************************************************************)
(* SpecAssign: one direct call of the assigner on every bounded input.     *)
(***************************************************************************)
InitAssign ==
    /\ readout_seqs \in ReadoutTables
    /\ N_readout_per_probe \in 1..MaxN
    /\ spacer \in Spacers
    /\ each_probe_1_on_bit \in BOOLEAN
    /\ \E table \in ProbeTables, barcode \in Barcodes :
          /\ Len(table) * N_readout_per_probe <= MaxDraws
          /\ args = <<[probe_table |-> table,
                       readout_seqs |-> readout_seqs,
                       barcode |-> barcode,
                       N_readout_per_probe |-> N_readout_per_probe,
                       spacer |-> spacer,
                       each_probe_1_on_bit |-> each_probe_1_on_bit]>>
          /\ frames = <<NewFrame("start", table)>>
    /\ results = <<NoResult>>
    /\ finished = <<>>
    /\ probe_dict = NoDict
    /\ orig_dict = NoDict
    /\ barcode_table = <<>>
    /\ gene_id_key = "name"
    /\ n_threads = 1
    /\ ks = <<>>
    /\ pc = "direct"
    /\ gi = 1
    /\ wi = 1
    /\ codec = NoCodec

\* the steps of the one frame of a direct call
CallBuildOnBitDict == \E f \in 1..Len(frames) : BuildOnBitDict(f)
CallSortValues == \E f \in 1..Len(frames) : SortValues(f)
CallLoopIter == \E f \in 1..Len(frames) : LoopIter(f)
CallFinish == \E f \in 1..Len(frames) : Finish(f)

NextAssign == CallBuildOnBitDict \/ CallSortValues \/ CallLoopIter \/ CallFinish

SpecAssign == InitAssign /\ [][NextAssign]_vars

(***************************************************************************)
(* Spec: one call of the batch dispatcher with its pool of workers.        *)
(***************************************************************************)
Genes == {"g1", "g2"}
Transcripts == {"t1", "t2"}

\* the probe table stored under (gk, tk); index labels differ between keys
DictTable(gk, tk) ==
    LET base == (IF gk = "g1" THEN 0 ELSE 10) + (IF tk = "t1" THEN 0 ELSE 4)
    IN  IF gk = "g1" /\ tk = "t1"
        THEN <<ProbeRow(base, 1), ProbeRow(base + 1, 0)>>
        ELSE <<ProbeRow(base, 0)>>

\* every dictionary over the genes and transcripts, empty ones included
ProbeDicts ==
    UNION {{[g \in gs |-> [t \in ts[g] |-> DictTable(g, t)]] :
               ts \in [gs -> SUBSET Transcripts]} : gs \in SUBSET Genes}

BarcodeRow(name, id, barcode) == [name |-> name, id |-> id, barcode_str |-> barcode]

\* a table with both genes, one with a repeated gene and no row for the
\* other, one whose second gene has no on-bit
BarcodeTables ==
    {<<BarcodeRow("g1", "g2", <<"1", "1">>), BarcodeRow("g2", "g1", <<"0", "1">>)>>,
     <<BarcodeRow("g1", "g1", <<"1", "0">>), BarcodeRow("g1", "g1", <<"0", "1">>)>>,
     <<BarcodeRow("g1", "g1", <<"1", "1">>), BarcodeRow("g2", "g2", <<"0", "0">>)>>}

Init ==
    /\ probe_dict \in ProbeDicts
    /\ orig_dict = probe_dict
    /\ barcode_table \in BarcodeTables
    /\ readout_seqs = FullReadouts
    /\ N_readout_per_probe \in {1, 2}
    /\ spacer = <<"T">>
    /\ gene_id_key \in {"name", "id"}
    /\ n_threads \in 1..MaxThreads
    /\ each_probe_1_on_bit \in BOOLEAN
    /\ ks = <<>>
    /\ args = <<>>
    /\ results = <<>>
    /\ pc = "build"
    /\ gi = 1
    /\ wi = 1
    /\ frames = <<>>
    /\ finished = <<>>
    /\ codec = NoCodec

\* the steps of the workers while the pool is open
WorkerTaskStart == \E i \in 1..Len(frames) : TaskStart(i)
WorkerBuildOnBitDict == pc = "pool" /\ \E f \in 1..Len(frames) : BuildOnBitDict(f)
WorkerSortValues == pc = "pool" /\ \E f \in 1..Len(frames) : SortValues(f)
WorkerLoopIter == pc = "pool" /\ \E f \in 1..Len(frames) : LoopIter(f)
WorkerFinish == pc = "pool" /\ \E f \in 1..Len(frames) : Finish(f)

Next ==
    \/ BuildGene
    \/ StartPool
    \/ WorkerTaskStart
    \/ WorkerBuildOnBitDict
    \/ WorkerSortValues
    \/ WorkerLoopIter
    \/ WorkerFinish
    \/ PoolReturn
    \/ PoolRaise
    \/ WriteBack
    \/ Return

Spec == Init /\ [][Next]_vars

(***************************************************************************)
(* Properties.                                                             *)
(***************************************************************************)
\* the rows a frame has finished: positions 1 .. Len(sequences)
DoneRows(f) == 1..Len(frames[f].sequences)

\* the (id, sequence) of the first readout row of an on-bit
FirstReadout(f, ob) == MatchingReadouts(args[f].readout_seqs, ob)[1]

\* the sampled on-bits in 5'->3' order: the first floor(N/2) reversed, then the rest
AssemblyOrder(s) ==
    LET K == Len(s) \div 2
    IN  [m \in 1..Len(s) |-> IF m <= K THEN s[K + 1 - m] ELSE s[m]]

RECURSIVE SumLen(_)
SumLen(ss) == IF Len(ss) = 0 THEN 0 ELSE Len(Head(ss)) + SumLen(Tail(ss))

Ones(barcode) == Cardinality(OnePositions(barcode))

\* the position of the row labelled lab in a table
PosIn(table, lab) == CHOOSE k \in 1..Len(table) : table[k].index = lab

\* the barcode of the first barcode_table row of gene g
GeneBarcode(g) ==
    LET k == CHOOSE m \in 1..Len(barcode_table) :
                 /\ barcode_table[m][gene_id_key] = g
                 /\ \A x \in 1..(m - 1) : barcode_table[x][gene_id_key] # g
    IN  barcode_table[k].barcode_str

\* the tasks built for key (g, t)
TasksOf(g, t) == {i \in 1..Len(ks) : ks[i] = <<g, t>>}

\* C1: at every moment each probe_dict[g][t] is either the original table or
\* the table returned by the one task built from (g, t); once the dispatcher
\* has returned, every entry holds the return value of the task built from
\* the original probe_dict[g][t] and gene g's barcode, whatever order the
\* workers finished in, with the original rows and keys.
C1_ResultsUnderOwnKey ==
    /\ DOMAIN probe_dict = DOMAIN orig_dict
    /\ \A g \in DOMAIN probe_dict :
          /\ DOMAIN probe_dict[g] = DOMAIN orig_dict[g]
          /\ \A t \in DOMAIN probe_dict[g] :
                /\ probe_dict[g][t] # orig_dict[g][t] =>
                      \E i \in TasksOf(g, t) :
                          /\ frames[i].pc = "returned"
                          /\ probe_dict[g][t] = ReturnedTable(frames[i])
                /\ pc = "done" =>
                      /\ Cardinality(TasksOf(g, t)) = 1
                      /\ \A i \in TasksOf(g, t) :
                            /\ args[i].probe_table = orig_dict[g][t]
                            /\ args[i].barcode = GeneBarcode(g)
                            /\ frames[i].pc = "returned"
                            /\ probe_dict[g][t] = ReturnedTable(frames[i])
                            /\ Len(probe_dict[g][t]) = Len(orig_dict[g][t])
                            /\ {r.index : r \in Elems(probe_dict[g][t])}
                                   = {r.index : r \in Elems(orig_dict[g][t])}
                            /\ \A k \in 1..Len(probe_dict[g][t]) :
                                  Len(probe_dict[g][t][k].probe_barcode)
                                      = Len(GeneBarcode(g))

C1_Witness ==
    /\ pc = "done"
    /\ Len(ks) >= 2
    /\ finished[1] # 1
    /\ \A i \in 1..Len(ks) : probe_dict[ks[i][1]][ks[i][2]] # orig_dict[ks[i][1]][ks[i][2]]

\* C2: probe_dict changes only in the write-back loop, when every task has
\* returned; while tasks are queued or running, after a task has raised and
\* after the call has failed, every entry is still the original table and
\* the call never reaches the write-back.
C2_NoWriteUnlessAllReturned ==
    /\ [](pc \in {"build", "pool", "failed"} => probe_dict = orig_dict)
    /\ []((\E i \in 1..Len(frames) : frames[i].pc = "raised") =>
             pc \in {"pool", "failed"} /\ probe_dict = orig_dict)
    /\ [][probe_dict' # probe_dict =>
             /\ pc = "write"
             /\ \A i \in 1..Len(frames) : frames[i].pc = "returned"]_vars

C2_Witness ==
    /\ pc = "failed"
    /\ \E i \in 1..Len(frames) : frames[i].pc = "raised"
    /\ \E i \in 1..Len(frames) : frames[i].pc = "returned" /\ results[i].set
    /\ probe_dict = orig_dict

\* C3: converting a barcode to its on-bits and back gives the barcode, and
\* converting a list of in-range indices to a barcode and back gives the
\* same set of indices.
C3_RoundTrip ==
    codec.done =>
        /\ codec.kind = "barcode" => codec.r_barcode = codec.barcode
        /\ codec.kind = "on_bits" => Elems(codec.r_on_bits) = Elems(codec.on_bits)

C3_Witness ==
    /\ codec.done
    /\ codec.kind = "on_bits"
    /\ Len(codec.on_bits) = 3
    /\ codec.on_bits[1] > codec.on_bits[2]
    /\ codec.on_bits[1] = codec.on_bits[3]
    /\ Elems(codec.r_on_bits) = Elems(codec.on_bits)

\* C4 as stated: the returned rows are the input rows in ascending shift,
\* rows of equal shift keeping their input order.
C4_StableSort ==
    \A f \in 1..Len(frames) :
        frames[f].pc = "returned" =>
            LET out == results[f].value
                inp == args[f].probe_table
            IN  /\ Len(out) = Len(inp)
                /\ \A x, y \in 1..Len(out) :
                      x < y =>
                          \/ out[x].shift < out[y].shift
                          \/ /\ out[x].shift = out[y].shift
                             /\ PosIn(inp, out[x].index) < PosIn(inp, out[y].index)

\* C4 amended: the returned rows are exactly the input rows, in ascending
\* shift; the order of rows of equal shift is not determined.
C4_SortedPermutation ==
    \A f \in 1..Len(frames) :
        frames[f].pc = "returned" =>
            LET out == results[f].value
                inp == args[f].probe_table
            IN  /\ Len(out) = Len(inp)
                /\ {r.index : r \in Elems(out)} = {r.index : r \in Elems(inp)}
                /\ \A k \in 1..Len(out) :
                      /\ out[k].target_sequence
                             = inp[PosIn(inp, out[k].index)].target_sequence
                      /\ out[k].shift = inp[PosIn(inp, out[k].index)].shift
                /\ \A x, y \in 1..Len(out) : x < y => out[x].shift <= out[y].shift

C4_Witness ==
    /\ Len(frames) = 1
    /\ frames[1].pc = "returned"
    /\ Len(args[1].probe_table) = 2
    /\ args[1].probe_table[1].shift > args[1].probe_table[2].shift
    /\ results[1].value[1].index = args[1].probe_table[2].index

\* C5 as stated: with a barcode that has no '1' the call fails with the
\* empty-domain error for every probe table, and never returns.
C5_ZeroBarcodeAlwaysFails ==
    \A f \in 1..Len(frames) :
        OnePositions(args[f].barcode) = {} =>
            /\ frames[f].pc # "returned"
            /\ frames[f].pc = "raised" => frames[f].err = "ValueError"

\* C5 amended: with a barcode that has no '1' and a probe table of at least
\* one row the call fails with the empty-domain error at the first probe: it
\* finishes no probe and never returns; with a probe table of no rows it
\* returns the empty table.
C5_ZeroBarcodeFailsWithRows ==
    \A f \in 1..Len(frames) :
        OnePositions(args[f].barcode) = {} =>
            /\ frames[f].pc = "raised" => frames[f].err = "ValueError"
            /\ Len(frames[f].sequences) = 0
            /\ Len(args[f].probe_table) >= 1 =>
                  /\ frames[f].pc # "returned"
                  /\ frames[f].pc = "loop" => ENABLED LoopIter(f) /\ ~ENABLED Finish(f)
            /\ Len(args[f].probe_table) = 0 =>
                  /\ frames[f].pc # "raised"
                  /\ frames[f].pc = "returned" => results[f].value = <<>>

C5_Witness ==
    /\ Len(frames) = 1
    /\ frames[1].pc = "raised"
    /\ frames[1].err = "ValueError"
    /\ Len(args[1].barcode) >= 2
    /\ OnePositions(args[1].barcode) = {}
    /\ Len(args[1].probe_table) >= 1

\* C6: for every finished probe, target_readout_sequence is the first
\* floor(N/2) sampled readouts in reverse order, each followed by the spacer,
\* then the target sequence, then the other sampled readouts in order, each
\* preceded by the spacer; its length is the target's plus N spacers plus the
\* N readout lengths.
C6_AssembledSequence ==
    \A f \in 1..Len(frames) :
        \A k \in DoneRows(f) :
            LET s == frames[f].sampled[k]
                N == args[f].N_readout_per_probe
                K == N \div 2
                sp == args[f].spacer
                target == frames[f].probe_table[k].target_sequence
                seq(m) == FirstReadout(f, s[m]).sequence
            IN  /\ Len(s) = N
                /\ frames[f].sequences[k]
                      = Concat([m \in 1..K |-> seq(K + 1 - m) \o sp])
                        \o target
                        \o Concat([m \in 1..(N - K) |-> sp \o seq(K + m)])
                /\ Len(frames[f].sequences[k])
                      = Len(target) + N * Len(sp) + SumLen([m \in 1..N |-> seq(m)])
                /\ frames[f].pc = "returned" =>
                      results[f].value[k].target_readout_sequence
                          = frames[f].sequences[k]

C6_Witness ==
    /\ Len(frames) = 1
    /\ frames[1].pc = "returned"
    /\ args[1].N_readout_per_probe = 4
    /\ Len(args[1].spacer) > 0
    /\ Len(frames[1].sampled) = 1
    /\ frames[1].sampled[1][1] = 0
    /\ frames[1].sampled[1][2] = 1
    /\ frames[1].sampled[1][3] = 2
    /\ results[1].value[1].target_readout_sequence
          = <<"C", "C", "T", "T", "A", "T", "T">> \o results[1].value[1].target_sequence
            \o <<"T", "T", "G", "T", "T">>
            \o FirstReadout(1, frames[1].sampled[1][4]).sequence

\* C7: with each_probe_1_on_bit, every finished probe's probe_barcode has
\* exactly one '1' and its N sampled on-bits are all the same.
C7_SingleBit ==
    \A f \in 1..Len(frames) :
        args[f].each_probe_1_on_bit =>
            \A k \in DoneRows(f) :
                /\ Ones(frames[f].probe_barcodes[k]) = 1
                /\ Len(frames[f].sampled[k]) = args[f].N_readout_per_probe
                /\ \A j \in 1..Len(frames[f].sampled[k]) :
                      frames[f].sampled[k][j] = frames[f].sampled[k][1]

C7_Witness ==
    /\ Len(frames) = 1
    /\ frames[1].pc = "returned"
    /\ args[1].each_probe_1_on_bit
    /\ args[1].N_readout_per_probe >= 2
    /\ Ones(args[1].barcode) >= 2
    /\ Len(results[1].value) >= 1
    /\ Ones(results[1].value[1].probe_barcode) = 1

\* C8: without each_probe_1_on_bit and with at least N on-bits in the gene
\* barcode, every finished probe's sampled on-bits are pairwise distinct and
\* its probe_barcode has exactly N '1's; with exactly N on-bits the
\* probe_barcode is the gene barcode.
C8_DistinctOnBits ==
    \A f \in 1..Len(frames) :
        (~args[f].each_probe_1_on_bit
            /\ Ones(args[f].barcode) >= args[f].N_readout_per_probe) =>
            \A k \in DoneRows(f) :
                LET s == frames[f].sampled[k]
                IN  /\ Len(s) = args[f].N_readout_per_probe
                    /\ \A x, y \in 1..Len(s) : s[x] = s[y] => x = y
                    /\ Ones(frames[f].probe_barcodes[k]) = args[f].N_readout_per_probe
                    /\ Ones(args[f].barcode) = args[f].N_readout_per_probe =>
                          frames[f].probe_barcodes[k] = args[f].barcode

C8_Witness ==
    /\ Len(frames) = 1
    /\ frames[1].pc = "returned"
    /\ ~args[1].each_probe_1_on_bit
    /\ args[1].N_readout_per_probe = 2
    /\ Ones(args[1].barcode) = 2
    /\ Len(args[1].barcode) = 3
    /\ Len(results[1].value) = 2
    /\ results[1].value[1].probe_barcode = args[1].barcode
    /\ frames[1].sampled[1] # frames[1].sampled[2]

\* C9: for every finished probe, splitting readout_names on ':' gives
\* exactly the N readout ids in 5'->3' assembly order.
C9_NamesSplitToIds ==
    \A f \in 1..Len(frames) :
        \A k \in DoneRows(f) :
            LET order == AssemblyOrder(frames[f].sampled[k])
            IN  Split(frames[f].readout_probe_names[k], ":")
                    = [m \in 1..Len(order) |-> FirstReadout(f, order[m]).id]

\* C10: in every returned table each probe_barcode has the length of the
\* gene barcode and its '1' positions are a non-empty subset of the gene
\* barcode's on-bits.
C10_ProbeBarcodeWithinGeneBarcode ==
    \A f \in 1..Len(frames) :
        frames[f].pc = "returned" =>
            \A k \in 1..Len(results[f].value) :
                LET pb == results[f].value[k].probe_barcode
                IN  /\ Len(pb) = Len(args[f].barcode)
                    /\ OnePositions(pb) # {}
                    /\ OnePositions(pb) \subseteq OnePositions(args[f].barcode)

C10_Witness ==
    /\ Len(frames) = 1
    /\ frames[1].pc = "returned"
    /\ Len(results[1].value) = 2
    /\ Ones(args[1].barcode) = 2
    /\ Len(args[1].barcode) = 3
    /\ Ones(results[1].value[1].probe_barcode) = 1
    /\ results[1].value[1].probe_barcode # results[1].value[2].probe_barcode

====
